---------------------------- MODULE Spec2Model ----------------------------
(***************************************************************************)
(* Fall detector of the Gyroscope-fall-detection repository: the pattern   *)
(* matcher of src/utils/fallDetection.ts as it is wired to the browser's   *)
(* devicemotion events by the React hook src/hooks/useSensorDetection.ts.  *)
(*                                                                         *)
(* Units.  Times are milliseconds, as in the source.  Sensor values are    *)
(* fixed-point tenths (98 stands for 9.8 m/s^2, 43 for 4.3 rad/s), so the  *)
(* three magnitude thresholds of the source are written times ten.  The    *)
(* inputs are vectors whose Euclidean norm is a whole number of tenths,    *)
(* for which the integer square root below is Math.sqrt exactly.           *)
(*                                                                         *)
(* Nullable values (number | null) are sequences: << >> is null and <<v>>  *)
(* is the number v.                                                        *)
(*                                                                         *)
(* JavaScript runs every callback to completion.  One devicemotion event   *)
(* is dispatched to the registered handlers in registration order, and a   *)
(* handler ingests the acceleration sample and then the rotation sample.   *)
(* The dispatch is modelled in steps (DeviceMotion, then for each handler  *)
(* HandleAcceleration and HandleRotation) so that the state at the end of  *)
(* each ingest call is a state of the model; no other operation is enabled *)
(* until the dispatch has finished (pc = "idle").                          *)
(***************************************************************************)
EXTENDS Integers, Sequences, FiniteSets, TLC

VARIABLES
    clock,            \* Date.now()
    state,            \* the hook's React state (FallDetectionState)
    recentAccelData,  \* recentAccelData.current
    recentGyroData,   \* recentGyroData.current
    fallPatternRef,   \* fallPatternRef.current
    cleanupRef,       \* cleanupRef.current: null, or the handler its cleanup removes
    listeners,        \* the window's devicemotion listeners, in registration order
    mounted,          \* the mount effect (requestPermission) has run
    starts,           \* number of startDetection calls so far (handler identities)
    events,           \* number of devicemotion events delivered so far
    pc,               \* "idle", or the step of the dispatch in progress
    event,            \* the event being dispatched
    queue,            \* handlers of the dispatch still to run (head: the running one)
    timestamp,        \* the running handler's `timestamp`
    accelLog,         \* history: every sample ingested on the acceleration channel
    gyroLog,          \* history: every sample ingested on the rotation channel
    fallLog           \* history: every episode checkFallPattern has ended

vars == <<clock, state, recentAccelData, recentGyroData, fallPatternRef, cleanupRef,
          listeners, mounted, starts, events, pc, event, queue, timestamp,
          accelLog, gyroLog, fallLog>>

detector == <<state, recentAccelData, recentGyroData, fallPatternRef,
              accelLog, gyroLog, fallLog>>
wiring == <<cleanupRef, listeners, mounted, starts>>
dispatch == <<pc, event, queue, timestamp>>

(***************************************************************************)
(* Nullable values and JavaScript truthiness.                              *)
(***************************************************************************)
Null == << >>
Some(v) == <<v>>
Val(o) == o[1]
\* `o ? ... : ...` and `!o` on a number | null: null and 0 are falsy.
Truthy(o) == o # Null /\ Val(o) # 0
\* `v || 0` on a number | null.
OrZero(o) == IF Truthy(o) THEN Val(o) ELSE 0

(***************************************************************************)
(* Program constants (src/utils/fallDetection.ts:14-19).                   *)
(***************************************************************************)
accelerationThreshold == 70
angularVelocityThreshold == 43
lowActivityThreshold == 50
patternDuration == 1500
dataWindowSize == 100

(***************************************************************************)
(* Bounds of the model.                                                    *)
(***************************************************************************)
MaxEvents == 4

\* Identities of the handleDeviceMotion closures that startDetection creates:
\* the mount effect's and one created by a later call.
HandlerIds == {1, 2}

\* Date.now() when the hook is constructed: some time after 1970.
Clock0 == 1000

(***************************************************************************)
(* Math.sqrt(x ** 2 + y ** 2 + z ** 2)                                     *)
(***************************************************************************)
RECURSIVE SqrtBetween(_, _, _)
SqrtBetween(n, lo, hi) ==
    IF lo >= hi THEN lo
    ELSE LET mid == (lo + hi + 1) \div 2
         IN IF mid * mid <= n THEN SqrtBetween(n, mid, hi)
                              ELSE SqrtBetween(n, lo, mid - 1)

Sqrt(n) == SqrtBetween(n, 0, n)

getMagnitude(data) == Sqrt(data.x * data.x + data.y * data.y + data.z * data.z)

RECURSIVE SumMagnitude(_)
SumMagnitude(samples) ==
    IF samples = << >> THEN 0
    ELSE getMagnitude(Head(samples)) + SumMagnitude(Tail(samples))

\* Mutant: the slice starts one element early.
SliceLastOffByOne(buf, k) ==
    IF Len(buf) <= k + 1 THEN buf ELSE SubSeq(buf, Len(buf) - k, Len(buf))

\* Array.prototype.slice(-k): the last k elements, or all of them if fewer.
SliceLast(buf, k) ==
    IF Len(buf) <= k THEN buf ELSE SubSeq(buf, Len(buf) - k + 1, Len(buf))

(***************************************************************************)
(* Initial values of the hook's state and refs.                            *)
(***************************************************************************)
InitialState ==
    [isDetecting |-> FALSE, fallDetected |-> FALSE, sensorData |-> << >>,
     lastFallTime |-> Null, fallCount |-> 0]

InitialPattern ==
    [accelerationSpike |-> FALSE, highAngularVelocity |-> FALSE,
     lowActivityAfter |-> FALSE, patternStartTime |-> Null,
     impactDetected |-> FALSE]

\* Mutant: a reset that leaves accelerationSpike as it is.
resetFallPatternKeepsSpike(pattern) ==
    [InitialPattern EXCEPT !.accelerationSpike = pattern.accelerationSpike]

\* Mutant: a reset that clears the flags and keeps the start time.
resetFallPatternKeepsStart(pattern) ==
    [InitialPattern EXCEPT !.patternStartTime = pattern.patternStartTime]

\* resetFallPattern: the ref is overwritten with a fresh idle pattern.
resetFallPattern(pattern) == InitialPattern

(***************************************************************************)
(* processAccelerationData / processGyroscopeData, piece by piece.         *)
(***************************************************************************)
\* Mutant: pop instead of shift, the newest sample is dropped.
PushSampleDropsNewest(buf, data) ==
    LET pushed == Append(buf, data)
    IN IF Len(pushed) > dataWindowSize THEN SubSeq(pushed, 1, dataWindowSize)
                                       ELSE pushed

\* push, then shift when the buffer has grown past dataWindowSize.
PushSample(buf, data) ==
    LET pushed == Append(buf, data)
    IN IF Len(pushed) > dataWindowSize THEN Tail(pushed) ELSE pushed

\* Mutant: a sample at the threshold arms the pattern.
DetectImpactInclusive(pattern, data) ==
    IF getMagnitude(data) >= accelerationThreshold /\ ~pattern.impactDetected
    THEN [pattern EXCEPT !.impactDetected = TRUE,
                         !.accelerationSpike = TRUE,
                         !.patternStartTime = Some(data.timestamp)]
    ELSE pattern

\* Mutant: level-triggered, every spike restarts the pattern.
DetectImpactLevelTriggered(pattern, data) ==
    IF getMagnitude(data) > accelerationThreshold
    THEN [pattern EXCEPT !.impactDetected = TRUE,
                         !.accelerationSpike = TRUE,
                         !.patternStartTime = Some(data.timestamp)]
    ELSE pattern

\* Impact: arms the pattern on a spike unless it is armed already.
DetectImpact(pattern, data) ==
    IF getMagnitude(data) > accelerationThreshold /\ ~pattern.impactDetected
    THEN [pattern EXCEPT !.impactDetected = TRUE,
                         !.accelerationSpike = TRUE,
                         !.patternStartTime = Some(data.timestamp)]
    ELSE pattern

\* Mutant: the mean is taken over the last nine samples.
IsLowActivityLastNine(buf) ==
    LET recentData == SliceLast(buf, 9)
    IN SumMagnitude(recentData) < lowActivityThreshold * Len(recentData)

\* avgMagnitude < lowActivityThreshold over recentData = slice(-10); the mean
\* is compared exactly: sum / n < t  iff  sum < t * n  (n >= 1).
IsLowActivity(buf) ==
    LET recentData == SliceLast(buf, 10)
    IN SumMagnitude(recentData) < lowActivityThreshold * Len(recentData)

\* Mutant: the flag follows the mean, a sample that raises it clears the flag.
DetectLowActivityTracking(pattern, buf, data) ==
    IF pattern.impactDetected /\ Truthy(pattern.patternStartTime)
    THEN LET timeSinceImpact == data.timestamp - Val(pattern.patternStartTime)
         IN IF timeSinceImpact > 200 /\ timeSinceImpact < patternDuration
            THEN [pattern EXCEPT !.lowActivityAfter = IsLowActivity(buf)]
            ELSE pattern
    ELSE pattern

\* Mutant: the low-activity window includes its lower bound.
DetectLowActivityInclusive(pattern, buf, data) ==
    IF pattern.impactDetected /\ Truthy(pattern.patternStartTime)
    THEN LET timeSinceImpact == data.timestamp - Val(pattern.patternStartTime)
         IN IF /\ timeSinceImpact >= 200
               /\ timeSinceImpact < patternDuration
               /\ IsLowActivity(buf)
            THEN [pattern EXCEPT !.lowActivityAfter = TRUE]
            ELSE pattern
    ELSE pattern

\* Low activity after impact (buf already holds data).
DetectLowActivity(pattern, buf, data) ==
    IF pattern.impactDetected /\ Truthy(pattern.patternStartTime)
    THEN LET timeSinceImpact == data.timestamp - Val(pattern.patternStartTime)
         IN IF /\ timeSinceImpact > 200
               /\ timeSinceImpact < patternDuration
               /\ IsLowActivity(buf)
            THEN [pattern EXCEPT !.lowActivityAfter = TRUE]
            ELSE pattern
    ELSE pattern

\* Mutant: the rotation flag is set whether or not an impact was detected.
DetectRotationUnguarded(pattern, data) ==
    IF getMagnitude(data) > angularVelocityThreshold
    THEN [pattern EXCEPT !.highAngularVelocity = TRUE]
    ELSE pattern

\* Mutant: the rotation window includes the impact's own timestamp.
DetectRotationFromImpact(pattern, data) ==
    IF /\ getMagnitude(data) > angularVelocityThreshold
       /\ pattern.impactDetected /\ Truthy(pattern.patternStartTime)
    THEN LET timeSinceImpact == data.timestamp - Val(pattern.patternStartTime)
         IN IF timeSinceImpact >= 0 /\ timeSinceImpact < 1000
            THEN [pattern EXCEPT !.highAngularVelocity = TRUE]
            ELSE pattern
    ELSE pattern

\* High angular velocity within one second of the impact.
DetectRotation(pattern, data) ==
    IF /\ getMagnitude(data) > angularVelocityThreshold
       /\ pattern.impactDetected /\ Truthy(pattern.patternStartTime)
    THEN LET timeSinceImpact == data.timestamp - Val(pattern.patternStartTime)
         IN IF timeSinceImpact > 0 /\ timeSinceImpact < 1000
            THEN [pattern EXCEPT !.highAngularVelocity = TRUE]
            ELSE pattern
    ELSE pattern

(***************************************************************************)
(* checkFallPattern(fallPatternRef, state, setState) at Date.now() = now.  *)
(* `captured` is the state object passed in (read for the cooldown), `st`  *)
(* is the hook's current state, which the functional setState updates.     *)
(***************************************************************************)
\* Mutant: the completion check reuses the rotation's one-second window, so
\* a low-activity confirmation that comes after it completes nothing.
PatternCompleteWithinSecond(pattern, timeSinceStart) ==
    /\ pattern.accelerationSpike
    /\ pattern.highAngularVelocity
    /\ pattern.lowActivityAfter
    /\ timeSinceStart < 1000

PatternComplete(pattern, timeSinceStart) ==
    /\ pattern.accelerationSpike
    /\ pattern.highAngularVelocity
    /\ pattern.lowActivityAfter
    /\ timeSinceStart <= patternDuration

\* Mutant: a five-second cooldown.
CooldownPassedLonger(captured, now) ==
    IF Truthy(captured.lastFallTime)
    THEN now - Val(captured.lastFallTime) > 5000
    ELSE TRUE

\* timeSinceLastFall > 3000, timeSinceLastFall being Infinity for a falsy lastFallTime.
CooldownPassed(captured, now) ==
    IF Truthy(captured.lastFallTime)
    THEN now - Val(captured.lastFallTime) > 3000
    ELSE TRUE

\* Mutant: the pattern never expires while a confirmation flag is missing.
PatternExpiredLate(timeSinceStart) == timeSinceStart > 2 * patternDuration

PatternExpired(timeSinceStart) == timeSinceStart > patternDuration

\* Mutant: the reset sits inside the cooldown branch.
ResetOnCounted(pattern, complete, counted) ==
    IF counted THEN resetFallPattern(pattern) ELSE pattern

\* Mutant: a complete pattern is left as it is.
ResetNever(pattern, complete, counted) == pattern

\* "Reset pattern" at the end of the complete-pattern branch: it runs whether
\* or not the cooldown let the fall be counted.
ResetOnComplete(pattern, complete, counted) ==
    IF complete THEN resetFallPattern(pattern) ELSE pattern

\* Mutant: the functional update adds two.
CountFallTwice(st, now) ==
    [st EXCEPT !.fallDetected = TRUE, !.lastFallTime = Some(now), !.fallCount = @ + 2]

\* setState(prev => ({...prev, fallDetected: true, lastFallTime: now,
\* fallCount: prev.fallCount + 1}))
CountFall(st, now) ==
    [st EXCEPT !.fallDetected = TRUE, !.lastFallTime = Some(now), !.fallCount = @ + 1]

\* Mutant: the timeout reset clears lastFallTime along with the pattern.
checkFallPatternTimeoutClears(pattern, captured, st, now) ==
    IF ~pattern.impactDetected \/ ~Truthy(pattern.patternStartTime)
    THEN [pattern |-> pattern, state |-> st, outcome |-> "none"]
    ELSE LET timeSinceStart == now - Val(pattern.patternStartTime)
             complete == PatternComplete(pattern, timeSinceStart)
             counted == complete /\ CooldownPassed(captured, now)
             consumed == ResetOnComplete(pattern, complete, counted)
         IN [pattern |-> IF PatternExpired(timeSinceStart)
                         THEN resetFallPattern(consumed) ELSE consumed,
             state |-> IF counted THEN CountFall(st, now)
                       ELSE IF PatternExpired(timeSinceStart)
                            THEN [st EXCEPT !.lastFallTime = Null]
                            ELSE st,
             outcome |-> IF counted THEN "counted"
                         ELSE IF complete THEN "suppressed"
                         ELSE IF PatternExpired(timeSinceStart) THEN "expired"
                         ELSE "none"]

checkFallPattern(pattern, captured, st, now) ==
    IF ~pattern.impactDetected \/ ~Truthy(pattern.patternStartTime)
    THEN [pattern |-> pattern, state |-> st, outcome |-> "none"]
    ELSE LET timeSinceStart == now - Val(pattern.patternStartTime)
             complete == PatternComplete(pattern, timeSinceStart)
             counted == complete /\ CooldownPassed(captured, now)
             consumed == ResetOnComplete(pattern, complete, counted)
         IN [pattern |-> IF PatternExpired(timeSinceStart)
                         THEN resetFallPattern(consumed) ELSE consumed,
             state |-> IF counted THEN CountFall(st, now) ELSE st,
             outcome |-> IF counted THEN "counted"
                         ELSE IF complete THEN "suppressed"
                         ELSE IF PatternExpired(timeSinceStart) THEN "expired"
                         ELSE "none"]

\* Mutant: a call that resets the pattern also empties the buffer.
processAccelerationDataClearsOnReset(data, buf, pattern, captured, st, now) ==
    LET buf1 == PushSample(buf, data)
        armed == DetectImpact(pattern, data)
        low == DetectLowActivity(armed, buf1, data)
        checked == checkFallPattern(low, captured, st, now)
    IN [buf |-> IF low.impactDetected /\ ~checked.pattern.impactDetected
                THEN << >> ELSE buf1,
        pattern |-> checked.pattern, state |-> checked.state,
        outcome |-> checked.outcome]

\* The whole of processAccelerationData: [buf, pattern, state] afterwards.
processAccelerationData(data, buf, pattern, captured, st, now) ==
    LET buf1 == PushSample(buf, data)
        armed == DetectImpact(pattern, data)
        low == DetectLowActivity(armed, buf1, data)
        checked == checkFallPattern(low, captured, st, now)
    IN [buf |-> buf1, pattern |-> checked.pattern, state |-> checked.state,
        outcome |-> checked.outcome]

\* The whole of processGyroscopeData.
processGyroscopeData(data, buf, pattern, captured, st, now) ==
    LET buf1 == PushSample(buf, data)
        rotated == DetectRotation(pattern, data)
        checked == checkFallPattern(rotated, captured, st, now)
    IN [buf |-> buf1, pattern |-> checked.pattern, state |-> checked.state,
        outcome |-> checked.outcome]

\* The history of ended episodes after an ingest call on channel `kind` that
\* found the pattern started at `start`: the call counted a fall, consumed a
\* complete pattern the cooldown suppressed, or discarded an expired one.
LogFall(log, kind, r, start, now) ==
    IF r.outcome # "none"
    THEN Append(log, [kind |-> kind, start |-> start, now |-> now,
                      outcome |-> r.outcome])
    ELSE log

(***************************************************************************)
(* Inputs: devicemotion events.  An event carries accelerationIncluding-   *)
(* Gravity and rotationRate, each null or three nullable axes.             *)
(***************************************************************************)
Axes(a, b, c) == <<[x |-> a, y |-> b, z |-> c]>>

AccStill == Axes(Null, Some(0), Some(0))        \* magnitude 0
AccImpact == Axes(Some(0), Some(48), Some(64))  \* magnitude 8.0 > 7
RotHigh == Axes(Some(30), Some(40), Null)       \* magnitude 5.0 > 4.3

EvImpact == [acc |-> AccImpact, rot |-> RotHigh]  \* a spike, the device turning
EvSettle == [acc |-> AccStill, rot |-> RotHigh]   \* still, the device turning
EvStill == [acc |-> AccStill, rot |-> Null]       \* still, no rotation reading
EvTurn == [acc |-> Null, rot |-> RotHigh]         \* turning, no acceleration reading

\* An input: an event and the time since the previous one.
Input(ev, d) == [ev |-> ev, d |-> d]

Inputs ==
    { Input(EvImpact, 500), Input(EvImpact, 3000),
      Input(EvSettle, 500), Input(EvStill, 500),
      Input(EvTurn, 500), Input(EvTurn, 3000) }

NoEvent == [acc |-> Null, rot |-> Null]

\* The SensorData the handler builds from an event's axes.
SensorData(axes, ts) ==
    [x |-> OrZero(Val(axes).x), y |-> OrZero(Val(axes).y),
     z |-> OrZero(Val(axes).z), timestamp |-> ts]

(***************************************************************************)
(* The hook.                                                               *)
(***************************************************************************)
Init ==
    /\ clock = Clock0
    /\ state = InitialState
    /\ recentAccelData = << >>
    /\ recentGyroData = << >>
    /\ fallPatternRef = InitialPattern
    /\ cleanupRef = Null
    /\ listeners = << >>
    /\ mounted = FALSE
    /\ starts = 0
    /\ events = 0
    /\ pc = "idle"
    /\ event = NoEvent
    /\ queue = << >>
    /\ timestamp = Clock0
    /\ accelLog = << >>
    /\ gyroLog = << >>
    /\ fallLog = << >>

\* startDetection called through a closure that captured `captured` as `state`:
\* registers a new handleDeviceMotion, stores its cleanup, sets isDetecting.
startDetection(captured) ==
    /\ starts + 1 \in HandlerIds
    /\ starts' = starts + 1
    /\ listeners' = Append(listeners, [id |-> starts + 1, state |-> captured])
    /\ cleanupRef' = Some(starts + 1)
    /\ state' = [state EXCEPT !.isDetecting = TRUE]

\* The mount effect: requestPermission calls the startDetection of the first
\* render, whose `state` is the initial state.
RequestPermission ==
    /\ pc = "idle" /\ ~mounted
    /\ mounted' = TRUE
    /\ startDetection(InitialState)
    /\ UNCHANGED <<clock, recentAccelData, recentGyroData, fallPatternRef, events,
                   dispatch, accelLog, gyroLog, fallLog>>

\* The caller invokes the startDetection of the current render.
StartDetection ==
    /\ pc = "idle" /\ mounted
    /\ startDetection(state)
    /\ UNCHANGED <<clock, recentAccelData, recentGyroData, fallPatternRef, events,
                   mounted, dispatch, accelLog, gyroLog, fallLog>>

\* window.removeEventListener('devicemotion', handler)
RemoveListener(ls, id) == SelectSeq(ls, LAMBDA l : l.id # id)

StopDetection ==
    /\ pc = "idle" /\ mounted
    /\ IF cleanupRef # Null
       THEN /\ listeners' = RemoveListener(listeners, Val(cleanupRef))
            /\ cleanupRef' = Null
       ELSE UNCHANGED <<listeners, cleanupRef>>
    /\ state' = [state EXCEPT !.isDetecting = FALSE]
    /\ UNCHANGED <<clock, recentAccelData, recentGyroData, fallPatternRef, events,
                   mounted, starts, dispatch, accelLog, gyroLog, fallLog>>

\* resetFallDetection: the counters are cleared through setState, then
\* resetFallPattern(fallPatternRef) is called.  src/utils/fallDetection.ts
\* declares resetFallPattern without exporting it, so what the hook's import
\* is bound to depends on the build: `bound` is whether the call reaches the
\* function (otherwise it throws a TypeError after the setState).
resetFallDetection(bound) ==
    /\ state' = [state EXCEPT !.fallDetected = FALSE,
                              !.fallCount = 0,
                              !.lastFallTime = Null]
    /\ fallPatternRef' = IF bound THEN resetFallPattern(fallPatternRef)
                                  ELSE fallPatternRef

ResetFallDetection ==
    /\ pc = "idle" /\ mounted
    /\ \E bound \in BOOLEAN : resetFallDetection(bound)
    /\ UNCHANGED <<clock, recentAccelData, recentGyroData, events, wiring,
                   dispatch, accelLog, gyroLog, fallLog>>

\* The browser dispatches devicemotion event ev, d ms after the previous step.
Deliver(ev, d) ==
    /\ pc = "idle"
    /\ events' = events + 1
    /\ clock' = clock + d
    /\ event' = ev
    /\ queue' = listeners
    /\ pc' = IF listeners = << >> THEN "idle" ELSE "accel"
    /\ UNCHANGED <<detector, wiring, timestamp>>

\* handleDeviceMotion, first half: timestamp = Date.now(), then the
\* acceleration sample, if the event has one.
HandleAcceleration ==
    /\ pc = "accel"
    /\ timestamp' = clock
    /\ pc' = "gyro"
    /\ IF event.acc # Null
       THEN LET accelData == SensorData(event.acc, clock)
                r == processAccelerationData(accelData, recentAccelData,
                         fallPatternRef, Head(queue).state, state, clock)
            IN /\ recentAccelData' = r.buf
               /\ fallPatternRef' = r.pattern
               /\ state' = r.state
               /\ accelLog' = Append(accelLog, accelData)
               /\ fallLog' = LogFall(fallLog, "accel", r,
                                      fallPatternRef.patternStartTime, clock)
       ELSE UNCHANGED <<recentAccelData, fallPatternRef, state, accelLog, fallLog>>
    /\ UNCHANGED <<clock, recentGyroData, gyroLog, wiring, events, event, queue>>

\* handleDeviceMotion, second half: the rotation sample, if the event has one.
HandleRotation ==
    /\ pc = "gyro"
    /\ queue' = Tail(queue)
    /\ pc' = IF Tail(queue) = << >> THEN "idle" ELSE "accel"
    /\ IF event.rot # Null
       THEN LET gyroData == SensorData(event.rot, timestamp)
                r == processGyroscopeData(gyroData, recentGyroData,
                         fallPatternRef, Head(queue).state, state, clock)
            IN /\ recentGyroData' = r.buf
               /\ fallPatternRef' = r.pattern
               /\ state' = r.state
               /\ gyroLog' = Append(gyroLog, gyroData)
               /\ fallLog' = LogFall(fallLog, "gyro", r,
                                      fallPatternRef.patternStartTime, clock)
       ELSE UNCHANGED <<recentGyroData, fallPatternRef, state, gyroLog, fallLog>>
    /\ UNCHANGED <<clock, recentAccelData, accelLog, wiring, events, event, timestamp>>

\* A devicemotion event arrives; any of the inputs, at most MaxEvents times.
DeviceMotion ==
    /\ events < MaxEvents
    /\ \E in \in Inputs : Deliver(in.ev, in.d)

Next ==
    \/ RequestPermission
    \/ StartDetection
    \/ StopDetection
    \/ ResetFallDetection
    \/ DeviceMotion
    \/ HandleAcceleration
    \/ HandleRotation

Spec == Init /\ [][Next]_vars

(***************************************************************************)
(* A long, steady stream of events, for the rolling buffers: the events     *)
(* come every 500 ms and cycle through the four kinds, so that each         *)
(* channel has readings and dropouts.  The hook may be mounted at any       *)
(* point of the stream.                                                     *)
(***************************************************************************)
MaxStreamEvents == 140

StreamCycle == <<EvImpact, EvSettle, EvStill, EvTurn>>
StreamEvent(n) == StreamCycle[(n % Len(StreamCycle)) + 1]

StreamMotion ==
    /\ events < MaxStreamEvents
    /\ Deliver(StreamEvent(events), 500)

NextBuffer ==
    \/ RequestPermission
    \/ StreamMotion
    \/ HandleAcceleration
    \/ HandleRotation

SpecBuffer == Init /\ [][NextBuffer]_vars

(***************************************************************************)
(* Date.now() is the system's wall clock, which an adjustment can set back  *)
(* between two events: the handler then builds a sample whose timestamp is  *)
(* older than the last one it ingested.                                     *)
(***************************************************************************)
MaxSkewEvents == 3

SkewInputs ==
    Inputs \cup { Input(EvImpact, -200), Input(EvStill, -200), Input(EvTurn, -200) }

SkewMotion ==
    /\ events < MaxSkewEvents
    /\ \E in \in SkewInputs : Deliver(in.ev, in.d)

NextSkew ==
    \/ RequestPermission
    \/ SkewMotion
    \/ HandleAcceleration
    \/ HandleRotation

SpecSkew == Init /\ [][NextSkew]_vars

(***************************************************************************)
(* The page component of src/unnamed/part_001, an earlier wiring of the     *)
(* same detector: isDetecting starts true, nothing is started on mount,     *)
(* the start button calls the startDetection of the current render, and     *)
(* its handleDeviceMotion passes recentAccelData to processGyroscopeData.   *)
(***************************************************************************)
MaxPart001Events == 3

InitPart001 ==
    /\ clock = Clock0
    /\ state = [InitialState EXCEPT !.isDetecting = TRUE]
    /\ recentAccelData = << >>
    /\ recentGyroData = << >>
    /\ fallPatternRef = InitialPattern
    /\ cleanupRef = Null
    /\ listeners = << >>
    /\ mounted = TRUE
    /\ starts = 0
    /\ events = 0
    /\ pc = "idle"
    /\ event = NoEvent
    /\ queue = << >>
    /\ timestamp = Clock0
    /\ accelLog = << >>
    /\ gyroLog = << >>
    /\ fallLog = << >>

\* handleDeviceMotion of part_001, second half: the rotation sample is
\* processed with the acceleration buffer.
HandleRotationPart001 ==
    /\ pc = "gyro"
    /\ queue' = Tail(queue)
    /\ pc' = IF Tail(queue) = << >> THEN "idle" ELSE "accel"
    /\ IF event.rot # Null
       THEN LET gyroData == SensorData(event.rot, timestamp)
                r == processGyroscopeData(gyroData, recentAccelData,
                         fallPatternRef, Head(queue).state, state, clock)
            IN /\ recentAccelData' = r.buf
               /\ fallPatternRef' = r.pattern
               /\ state' = r.state
               /\ gyroLog' = Append(gyroLog, gyroData)
               /\ fallLog' = LogFall(fallLog, "gyro", r,
                                      fallPatternRef.patternStartTime, clock)
       ELSE UNCHANGED <<recentAccelData, fallPatternRef, state, gyroLog, fallLog>>
    /\ UNCHANGED <<clock, recentGyroData, accelLog, wiring, events, event, timestamp>>

Part001Motion ==
    /\ events < MaxPart001Events
    /\ \E in \in Inputs : Deliver(in.ev, in.d)

NextPart001 ==
    \/ StartDetection
    \/ Part001Motion
    \/ HandleAcceleration
    \/ HandleRotationPart001

SpecPart001 == InitPart001 /\ [][NextPart001]_vars

(***************************************************************************)
(* Events at the edges of the detector's conditions: magnitudes equal to    *)
(* the thresholds and delays that put a sample exactly on a window bound.   *)
(***************************************************************************)
MaxEdgeEvents == 3

AccAtImpactThreshold == Axes(Some(0), Some(42), Some(56))  \* magnitude 7.0
AccQuiet == Axes(Some(0), Some(12), Some(16))              \* magnitude 2.0
RotAtThreshold == Axes(Null, Null, Some(43))              \* magnitude 4.3

EdgeEvents ==
    { [acc |-> AccImpact, rot |-> Null],
      [acc |-> AccAtImpactThreshold, rot |-> Null],
      [acc |-> AccStill, rot |-> Null],
      [acc |-> AccQuiet, rot |-> Null],
      [acc |-> Null, rot |-> RotHigh],
      [acc |-> Null, rot |-> RotAtThreshold],
      [acc |-> AccImpact, rot |-> RotHigh] }

EdgeDelays == {200, 500, 1000}

EdgeMotion ==
    /\ events < MaxEdgeEvents
    /\ \E ev \in EdgeEvents, d \in EdgeDelays : Deliver(ev, d)

NextEdges ==
    \/ RequestPermission
    \/ EdgeMotion
    \/ HandleAcceleration
    \/ HandleRotation

SpecEdges == Init /\ [][NextEdges]_vars

(***************************************************************************)
(* A stream of acceleration-only events, 250 ms apart, delivered to the     *)
(* mounted hook: samples at the impact threshold (which do not arm the      *)
(* pattern) and still samples in any order, with one impact among them.     *)
(* The stream is long enough for the buffer to hold more than ten samples   *)
(* while the low-activity window of the episode is open.                    *)
(***************************************************************************)
MaxMeanEvents == 11

MeanDelays == {250}

MeanEvents ==
    { [acc |-> AccAtImpactThreshold, rot |-> Null],
      [acc |-> AccStill, rot |-> Null],
      [acc |-> AccImpact, rot |-> Null] }

MeanMotion ==
    /\ mounted
    /\ events < MaxMeanEvents
    /\ \E ev \in MeanEvents, d \in MeanDelays :
          /\ ev.acc = AccImpact
                => \A i \in DOMAIN accelLog :
                      getMagnitude(accelLog[i]) <= accelerationThreshold
          /\ Deliver(ev, d)

NextMean ==
    \/ RequestPermission
    \/ MeanMotion
    \/ HandleAcceleration
    \/ HandleRotation

SpecMean == Init /\ [][NextMean]_vars

(***************************************************************************)
(* src/unnamed/part_003 (core/fallDetection.ts): the detector with its      *)
(* buffers and pattern at module level.  startSensorDetection registers a   *)
(* handler that ingests both samples itself; there is no completion check   *)
(* and no reset, and a rotation sample is only looked at while the pattern  *)
(* is armed.                                                                *)
(***************************************************************************)
MaxPart003Events == 3

\* part_003:79, the rotation window has no lower bound.
DetectRotationPart003(pattern, data) ==
    IF getMagnitude(data) > angularVelocityThreshold
       /\ data.timestamp - Val(pattern.patternStartTime) < 1000
    THEN [pattern EXCEPT !.highAngularVelocity = TRUE]
    ELSE pattern

StartSensorDetection ==
    /\ pc = "idle"
    /\ starts + 1 \in HandlerIds
    /\ starts' = starts + 1
    /\ listeners' = Append(listeners, [id |-> starts + 1, state |-> InitialState])
    /\ UNCHANGED <<clock, detector, cleanupRef, mounted, events, dispatch>>

HandleAccelerationPart003 ==
    /\ pc = "accel"
    /\ timestamp' = clock
    /\ pc' = "gyro"
    /\ IF event.acc # Null
       THEN LET accelData == SensorData(event.acc, clock)
                buf1 == PushSample(recentAccelData, accelData)
            IN /\ recentAccelData' = buf1
               /\ fallPatternRef' =
                     DetectLowActivity(DetectImpact(fallPatternRef, accelData),
                                       buf1, accelData)
               /\ accelLog' = Append(accelLog, accelData)
       ELSE UNCHANGED <<recentAccelData, fallPatternRef, accelLog>>
    /\ UNCHANGED <<clock, state, recentGyroData, gyroLog, fallLog, wiring, events,
                   event, queue>>

HandleRotationPart003 ==
    /\ pc = "gyro"
    /\ queue' = Tail(queue)
    /\ pc' = IF Tail(queue) = << >> THEN "idle" ELSE "accel"
    /\ IF /\ event.rot # Null
          /\ fallPatternRef.impactDetected
          /\ Truthy(fallPatternRef.patternStartTime)
       THEN LET gyroData == SensorData(event.rot, timestamp)
            IN /\ recentGyroData' = PushSample(recentGyroData, gyroData)
               /\ fallPatternRef' = DetectRotationPart003(fallPatternRef, gyroData)
               /\ gyroLog' = Append(gyroLog, gyroData)
       ELSE UNCHANGED <<recentGyroData, fallPatternRef, gyroLog>>
    /\ UNCHANGED <<clock, state, recentAccelData, accelLog, fallLog, wiring, events,
                   event, timestamp>>

Part003Motion ==
    /\ events < MaxPart003Events
    /\ \E in \in Inputs : Deliver(in.ev, in.d)

NextPart003 ==
    \/ StartSensorDetection
    \/ Part003Motion
    \/ HandleAccelerationPart003
    \/ HandleRotationPart003

SpecPart003 == Init /\ [][NextPart003]_vars

(***************************************************************************)
(* Scenario A of the specification, fed to the mounted hook with Date.now() *)
(* equal to the scenario's time: rest samples of magnitude 9.8 every 100 ms *)
(* for one second, a sample of magnitude 20 at t = 0, a rotation sample of  *)
(* magnitude 5 at t = 300, ten acceleration samples of magnitude 2 from     *)
(* t = 400 to t = 1000.  The scenario is run with the impact at Date.now()  *)
(* = 0, as written, and at a later time; with the second of rest and        *)
(* without it.                                                              *)
(***************************************************************************)
AccRest == Axes(Some(0), Some(0), Some(98))          \* magnitude 9.8
AccHardImpact == Axes(Some(0), Some(120), Some(160)) \* magnitude 20.0
AccLow == Axes(Some(0), Some(0), Some(20))           \* magnitude 2.0
AccLowTilted == Axes(Some(12), Some(16), Some(0))    \* magnitude 2.0

ScenarioStep(evs, d) == [evs |-> evs, d |-> d]
RestStep == ScenarioStep({[acc |-> AccRest, rot |-> Null]}, 100)
LowStep(d) ==
    ScenarioStep({[acc |-> AccLow, rot |-> Null], [acc |-> AccLowTilted, rot |-> Null]}, d)

ScenarioA ==
    [i \in 1..10 |-> RestStep]
    \o << ScenarioStep({[acc |-> AccHardImpact, rot |-> Null]}, 100),
          ScenarioStep({[acc |-> Null, rot |-> RotHigh]}, 300),
          LowStep(100), LowStep(67), LowStep(66), LowStep(67), LowStep(67),
          LowStep(66), LowStep(67), LowStep(67), LowStep(66), LowStep(67) >>

\* Date.now() of the impact sample.
ImpactTimes == {0, 5000}

InitScenarioA ==
    \E t0 \in ImpactTimes, rest \in BOOLEAN :
        /\ clock = IF rest THEN t0 - 1100 ELSE t0 - 100
        /\ events = IF rest THEN 0 ELSE 10
        /\ timestamp = clock
        /\ state = InitialState
        /\ recentAccelData = << >>
        /\ recentGyroData = << >>
        /\ fallPatternRef = InitialPattern
        /\ cleanupRef = Null
        /\ listeners = << >>
        /\ mounted = FALSE
        /\ starts = 0
        /\ pc = "idle"
        /\ event = NoEvent
        /\ queue = << >>
        /\ accelLog = << >>
        /\ gyroLog = << >>
        /\ fallLog = << >>

ScenarioMotion ==
    /\ mounted
    /\ events < Len(ScenarioA)
    /\ \E ev \in ScenarioA[events + 1].evs : Deliver(ev, ScenarioA[events + 1].d)

NextScenarioA ==
    \/ RequestPermission
    \/ ScenarioMotion
    \/ HandleAcceleration
    \/ HandleRotation

SpecScenarioA == InitScenarioA /\ [][NextScenarioA]_vars

(***************************************************************************)
(* The page component of src/unnamed/part_002: the simple threshold         *)
(* detector of the README.  It reads the Accelerometer and Gyroscope of the *)
(* Generic Sensor API; every accelerometer reading goes through             *)
(* processSensorData, a functional update of the component's state, and a   *)
(* gyroscope reading only updates the display.  `listeners` holds the       *)
(* started accelerometers, `cleanupRef` is sensorRef.current, `accelLog`    *)
(* and `gyroLog` are the readings so far.                                   *)
(***************************************************************************)
fallThreshold == 150
sensorWindowSize == 50
MaxReadings == 4

\* Mutant: a fall exactly two seconds after the last one is counted.
DebouncePassedAtTwoSeconds(prev, now) ==
    IF Truthy(prev.lastFallTime) THEN now - Val(prev.lastFallTime) >= 2000 ELSE TRUE

\* timeSinceLastFall > 2000, Infinity for a falsy lastFallTime.
DebouncePassed(prev, now) ==
    IF Truthy(prev.lastFallTime) THEN now - Val(prev.lastFallTime) > 2000 ELSE TRUE

\* The updater that processSensorData passes to setState, run at Date.now() = now.
processSensorData(prev, data, now) ==
    LET newSensorData == SliceLast(Append(prev.sensorData, data), sensorWindowSize)
        magnitude == getMagnitude(data)
    IN IF magnitude > fallThreshold /\ DebouncePassed(prev, now)
       THEN [prev EXCEPT !.fallDetected = TRUE,
                         !.lastFallTime = Some(now),
                         !.fallCount = @ + 1,
                         !.sensorData = newSensorData]
       ELSE [prev EXCEPT !.sensorData = newSensorData]

AccAtThreshold == Axes(Some(0), Some(90), Some(120))  \* magnitude 15.0

Readings ==
    { Input(AccHardImpact, 1000), Input(AccHardImpact, 2000), Input(AccHardImpact, 2500),
      Input(AccAtThreshold, 2500), Input(AccStill, 1000) }

\* startDetection of part_002: a new accelerometer is started and kept in sensorRef.
StartSensors ==
    /\ pc = "idle"
    /\ starts + 1 \in HandlerIds
    /\ starts' = starts + 1
    /\ listeners' = Append(listeners, [id |-> starts + 1, state |-> InitialState])
    /\ cleanupRef' = Some(starts + 1)
    /\ state' = [state EXCEPT !.isDetecting = TRUE]
    /\ UNCHANGED <<clock, recentAccelData, recentGyroData, fallPatternRef, events,
                   mounted, dispatch, accelLog, gyroLog, fallLog>>

\* stopDetection of part_002: the accelerometer in sensorRef is stopped.
StopSensors ==
    /\ pc = "idle"
    /\ IF cleanupRef # Null
       THEN /\ listeners' = RemoveListener(listeners, Val(cleanupRef))
            /\ cleanupRef' = Null
       ELSE UNCHANGED <<listeners, cleanupRef>>
    /\ state' = [state EXCEPT !.isDetecting = FALSE]
    /\ UNCHANGED <<clock, recentAccelData, recentGyroData, fallPatternRef, events,
                   mounted, starts, dispatch, accelLog, gyroLog, fallLog>>

\* resetFallDetection of part_002.
ResetSimple ==
    /\ pc = "idle"
    /\ state' = [state EXCEPT !.fallDetected = FALSE, !.fallCount = 0,
                              !.lastFallTime = Null]
    /\ UNCHANGED <<clock, recentAccelData, recentGyroData, fallPatternRef, events,
                   wiring, dispatch, accelLog, gyroLog, fallLog>>

\* A started accelerometer fires 'reading', d ms after the previous step.
AccelReading ==
    /\ pc = "idle" /\ listeners # << >>
    /\ events < MaxReadings
    /\ \E in \in Readings :
          LET accelData == SensorData(in.ev, clock + in.d)
          IN /\ clock' = clock + in.d
             /\ state' = processSensorData(state, accelData, clock + in.d)
             /\ accelLog' = Append(accelLog, accelData)
    /\ events' = events + 1
    /\ UNCHANGED <<recentAccelData, recentGyroData, fallPatternRef, wiring,
                   dispatch, gyroLog, fallLog>>

\* A gyroscope fires 'reading': only currentRotation is set.
GyroReading ==
    /\ pc = "idle" /\ starts > 0
    /\ events < MaxReadings
    /\ clock' = clock + 500
    /\ gyroLog' = Append(gyroLog, SensorData(RotHigh, clock + 500))
    /\ events' = events + 1
    /\ UNCHANGED <<state, recentAccelData, recentGyroData, fallPatternRef, wiring,
                   dispatch, accelLog, fallLog>>

NextSimple ==
    \/ StartSensors
    \/ StopSensors
    \/ ResetSimple
    \/ AccelReading
    \/ GyroReading

SpecSimple == Init /\ [][NextSimple]_vars

(***************************************************************************)
(* Vocabulary of the properties.                                           *)
(***************************************************************************)
Armed == fallPatternRef.impactDetected
Idle == fallPatternRef = InitialPattern
AllFlags(pattern) ==
    /\ pattern.impactDetected
    /\ pattern.accelerationSpike
    /\ pattern.highAngularVelocity
    /\ pattern.lowActivityAfter

\* The next step is an ingest call (processAccelerationData or
\* processGyroscopeData); CallData is the sample it ingests.
AccelCall == pc = "accel" /\ event.acc # Null
GyroCall == pc = "gyro" /\ event.rot # Null
IngestCall == AccelCall \/ GyroCall
CallData ==
    IF pc = "accel" THEN SensorData(event.acc, clock)
                    ELSE SensorData(event.rot, timestamp)

\* The pattern of the pending call when it reaches its completion check:
\* after the impact and low-activity stages, or after the rotation stage.
CallStage ==
    IF pc = "accel"
    THEN DetectLowActivity(DetectImpact(fallPatternRef, CallData),
                           PushSample(recentAccelData, CallData), CallData)
    ELSE DetectRotation(fallPatternRef, CallData)

\* Milliseconds from the pattern's start to the pending call's Date.now().
SinceStart == clock - Val(fallPatternRef.patternStartTime)

\* The state passed to the pending call: the one its handler captured.
Captured == Head(queue).state

Outcomes(o) == {i \in DOMAIN fallLog : fallLog[i].outcome = o}

(***************************************************************************)
(* C1.  Cooldown: a complete pattern whose completion check runs less than *)
(* 3000 ms after the last counted fall is consumed (the pattern is reset   *)
(* to idle) and counts nothing: fallCount and lastFallTime stay as they    *)
(* are.  The hook's handler passes the state it captured when it was       *)
(* created; a handler created at mount reads lastFallTime = null for ever.  *)
(***************************************************************************)
C1_CooldownSuppresses ==
    [][(/\ IngestCall
        /\ AllFlags(CallStage)
        /\ state.lastFallTime # Null
        /\ clock - Val(state.lastFallTime) < 3000)
         => /\ fallPatternRef' = InitialPattern
            /\ state'.fallCount = state.fallCount
            /\ state'.lastFallTime = state.lastFallTime
      ]_vars

(***************************************************************************)
(* C2.  Scenario A as written (a second of rest samples, then the impact    *)
(* sample, with timestamp 0 or later): the impact sample arms the detector  *)
(* with patternStartTime = its timestamp, the rotation sample sets          *)
(* highAngularVelocity, and when the scenario has run the fall has been     *)
(* confirmed exactly once, fallCount = 1.                                   *)
(***************************************************************************)
ScenarioAsWritten == accelLog # << >> /\ getMagnitude(accelLog[1]) = 98
ScenarioDone == events = Len(ScenarioA) /\ pc = "idle"

C2_ScenarioA ==
    ScenarioAsWritten
      => /\ (events = 11 /\ pc = "gyro")
              => /\ fallPatternRef.impactDetected
                 /\ fallPatternRef.patternStartTime = Some(timestamp)
         /\ (events = 12 /\ pc = "idle") => fallPatternRef.highAngularVelocity
         /\ ScenarioDone
              => /\ state.fallCount = 1
                 /\ Cardinality(Outcomes("counted")) = 1

\* What the code does with scenario A as written: the first rest sample arms
\* the detector, the episode times out, and nothing is counted.
C2_NothingCounted == (ScenarioAsWritten /\ ScenarioDone) => state.fallCount = 0

(***************************************************************************)
(* C3.  Timeout: an ingest call of either channel that finds the pattern   *)
(* armed more than patternDuration after patternStartTime ends with the    *)
(* pattern reset to idle, whichever flags were set, and changes no counter. *)
(***************************************************************************)
C3_Timeout ==
    [][(IngestCall /\ Armed /\ SinceStart > patternDuration)
         => /\ fallPatternRef' = InitialPattern
            /\ state' = state
      ]_vars

\* After every ingest call the pattern is idle or younger than patternDuration:
\* an armed episode does not outlive the first sample evaluated after it expired.
C3_ExpiredEpisodeEnds ==
    /\ C3_Timeout
    /\ [][IngestCall
            => \/ ~fallPatternRef'.impactDetected
               \/ clock' - Val(fallPatternRef'.patternStartTime) <= patternDuration
         ]_vars

\* Episodes have expired on both channels, one of them with a confirmation
\* flag set, and no fall was counted.
C3_Witness ==
    /\ \E i \in Outcomes("expired") : fallLog[i].kind = "accel"
    /\ \E i \in Outcomes("expired") : fallLog[i].kind = "gyro"
    /\ Idle
    /\ state.fallCount = 0

(***************************************************************************)
(* C4.  Edge-triggered impact: an acceleration sample above the threshold  *)
(* that is ingested while the pattern is armed does not re-arm it.  The     *)
(* impact stage leaves the pattern as it was, and after the call            *)
(* patternStartTime is what it was, or null if the call's own completion    *)
(* check ended the episode; it never moves to the new sample's timestamp.   *)
(***************************************************************************)
C4_NoRearm ==
    [][(AccelCall /\ Armed /\ getMagnitude(CallData) > accelerationThreshold)
         => /\ DetectImpact(fallPatternRef, CallData) = fallPatternRef
            /\ fallPatternRef'.patternStartTime
                  \in {fallPatternRef.patternStartTime, Null}
            /\ (fallPatternRef'.impactDetected
                  => fallPatternRef'.patternStartTime = fallPatternRef.patternStartTime)
      ]_vars

\* A spike has just been ingested in an episode that an earlier sample started.
C4_Witness ==
    /\ pc = "gyro" /\ event.acc # Null
    /\ getMagnitude(SensorData(event.acc, timestamp)) > accelerationThreshold
    /\ Armed
    /\ Val(fallPatternRef.patternStartTime) < timestamp

(***************************************************************************)
(* C5.  Order independence.  As stated: an ingest call that brings the     *)
(* second of the two confirmations, in either order, confirms a fall.       *)
(***************************************************************************)
BothConfirmed ==
    /\ IngestCall
    /\ AllFlags(CallStage)
    /\ SinceStart <= patternDuration

C5_EitherOrderConfirms ==
    [][BothConfirmed => state'.fallCount = state.fallCount + 1]_vars

(***************************************************************************)
(* C5, amended.  In either order, the call that brings the second           *)
(* confirmation while now - patternStartTime <= patternDuration consumes    *)
(* the episode (the pattern is reset to idle in that call), and it counts   *)
(* the fall exactly when the lastFallTime of the state passed to the call   *)
(* is null or more than 3000 ms before now.                                 *)
(***************************************************************************)
C5_EitherOrderCompletes ==
    [][BothConfirmed
         => /\ fallPatternRef' = InitialPattern
            /\ IF \/ Captured.lastFallTime = Null
                  \/ clock - Val(Captured.lastFallTime) > 3000
               THEN /\ state'.fallCount = state.fallCount + 1
                    /\ state'.lastFallTime = Some(clock)
               ELSE state' = state
      ]_vars

\* The rotation was confirmed first and the low activity by the acceleration
\* sample of a later event: that call completed the pattern and counted it.
C5_Witness ==
    /\ pc = "gyro"
    /\ fallLog # << >>
    /\ fallLog[Len(fallLog)].kind = "accel"
    /\ fallLog[Len(fallLog)].outcome = "counted"
    /\ fallLog[Len(fallLog)].now = clock
    /\ \E i \in DOMAIN gyroLog :
          /\ gyroLog[i].timestamp > Val(fallLog[Len(fallLog)].start)
          /\ gyroLog[i].timestamp < clock

(***************************************************************************)
(* C6.  Buffer bound: each rolling buffer holds the last min(N, W) of the   *)
(* N samples ingested on its channel, in arrival order, W = dataWindowSize. *)
(***************************************************************************)
LastOf(log, n) ==
    [i \in 1..(IF Len(log) < n THEN Len(log) ELSE n) |->
        log[i + (IF Len(log) < n THEN 0 ELSE Len(log) - n)]]

C6_BufferBound ==
    /\ Len(recentAccelData) <= dataWindowSize
    /\ Len(recentGyroData) <= dataWindowSize
    /\ recentAccelData = LastOf(accelLog, dataWindowSize)
    /\ recentGyroData = LastOf(gyroLog, dataWindowSize)

\* Both channels have ingested more than W samples: the oldest were evicted.
C6_Witness ==
    /\ Len(accelLog) > dataWindowSize + 2
    /\ Len(gyroLog) > dataWindowSize + 2
    /\ Len(recentAccelData) = dataWindowSize

(***************************************************************************)
(* C7.  Cooldown expiry: a complete pattern whose completion check runs    *)
(* more than 3000 ms after the last counted fall is counted: fallCount      *)
(* grows by one and lastFallTime becomes the time of that check.            *)
(***************************************************************************)
C7_CountedAfterCooldown ==
    [][(/\ BothConfirmed
        /\ state.lastFallTime # Null
        /\ clock - Val(state.lastFallTime) > 3000)
         => /\ state'.fallCount = state.fallCount + 1
            /\ state'.lastFallTime = Some(clock)
      ]_vars

\* Two episodes confirmed more than 3000 ms apart, both counted.
C7_Witness ==
    /\ state.fallCount = 2
    /\ Len(fallLog) = 2
    /\ fallLog[1].outcome = "counted" /\ fallLog[2].outcome = "counted"
    /\ fallLog[2].now - fallLog[1].now > 3000
    /\ state.lastFallTime = Some(fallLog[2].now)

(***************************************************************************)
(* C8.  At most one fall per episode: a step that increases fallCount       *)
(* increases it by exactly 1, starts in an armed pattern and ends with the  *)
(* pattern reset to idle.  The step that counts a fall is therefore the     *)
(* last step of its episode, and no episode counts two.                     *)
(***************************************************************************)
C8_OneFallPerEpisode ==
    [][state'.fallCount > state.fallCount
         => /\ state'.fallCount = state.fallCount + 1
            /\ Armed
            /\ fallPatternRef' = InitialPattern
      ]_vars

\* Two episodes have each counted one fall.
C8_Witness ==
    /\ state.fallCount = 2
    /\ Cardinality(Outcomes("counted")) = 2
    /\ \A i, j \in Outcomes("counted") : i # j => fallLog[i].start # fallLog[j].start

(***************************************************************************)
(* C9.  A candidate is consumed exactly once: an ingest call whose pattern  *)
(* reaches the completion check with all four flags set ends with the       *)
(* pattern reset to idle, whether or not the cooldown let the fall be       *)
(* counted; and no state has all four flags set.                            *)
(***************************************************************************)
C9_CandidateConsumed ==
    /\ [](~AllFlags(fallPatternRef))
    /\ [][(IngestCall /\ AllFlags(CallStage)) => fallPatternRef' = InitialPattern]_vars

\* A complete pattern that the cooldown suppressed has been consumed.
C9_Witness ==
    /\ Outcomes("suppressed") # {}
    /\ Idle
    /\ state.fallCount = 1

(***************************************************************************)
(* C10.  patternStartTime is non-null if and only if impactDetected.        *)
(***************************************************************************)
C10_StartIffImpact ==
    (fallPatternRef.patternStartTime # Null) <=> fallPatternRef.impactDetected

\* An episode has ended and the next one is armed.
C10_Witness ==
    /\ Armed
    /\ fallPatternRef.patternStartTime = Some(clock)
    /\ fallLog # << >>

(***************************************************************************)
(* C11.  fallCount is monotonically increasing.  As stated: no step         *)
(* decreases fallCount, and a step that changes it adds exactly 1.          *)
(***************************************************************************)
C11_Monotone ==
    [][/\ state'.fallCount >= state.fallCount
       /\ (state'.fallCount # state.fallCount
              => state'.fallCount = state.fallCount + 1)
      ]_vars

(***************************************************************************)
(* C11, amended.  A step that changes fallCount is either an ingest call,   *)
(* which adds exactly 1, or resetFallDetection, which sets it to 0; no      *)
(* other step changes it, and no ingest call decreases it.                  *)
(***************************************************************************)
C11_MonotoneUntilReset ==
    [][state'.fallCount # state.fallCount
         => \/ IngestCall /\ state'.fallCount = state.fallCount + 1
            \/ ResetFallDetection /\ state'.fallCount = 0
      ]_vars

\* A fall was counted, the counters were reset, and a fall was counted again.
C11_Witness ==
    /\ state.fallCount = 1
    /\ Cardinality(Outcomes("counted")) = 2

(***************************************************************************)
(* C12.  resetFallDetection, called in any state, yields the idle pattern   *)
(* with fallDetected false, fallCount 0 and lastFallTime null (and so a     *)
(* second call changes nothing).                                            *)
(***************************************************************************)
C12_ResetYieldsIdle ==
    [][ResetFallDetection
         => /\ fallPatternRef' = InitialPattern
            /\ state'.fallDetected = FALSE
            /\ state'.fallCount = 0
            /\ state'.lastFallTime = Null
      ]_vars

\* What every build does: the counters are cleared.
C12_ResetClearsCounters ==
    [][ResetFallDetection
         => /\ state'.fallDetected = FALSE
            /\ state'.fallCount = 0
            /\ state'.lastFallTime = Null
      ]_vars

(***************************************************************************)
(* C13.  A sample whose timestamp is older than the last sample ingested    *)
(* on its channel is rejected: the ingest call changes neither buffer, nor  *)
(* the pattern, nor the hook's state.                                       *)
(***************************************************************************)
OlderThanLast ==
    IF pc = "accel"
    THEN /\ accelLog # << >>
         /\ CallData.timestamp < accelLog[Len(accelLog)].timestamp
    ELSE /\ gyroLog # << >>
         /\ CallData.timestamp < gyroLog[Len(gyroLog)].timestamp

C13_MalformedRejected ==
    [][(IngestCall /\ OlderThanLast)
         => UNCHANGED <<recentAccelData, recentGyroData, fallPatternRef, state>>
      ]_vars

\* What the code does with such a sample: it is appended like any other.
C13_StaleSampleIngested ==
    [][(IngestCall /\ OlderThanLast)
         => IF pc = "accel"
            THEN recentAccelData' = PushSample(recentAccelData, CallData)
            ELSE recentGyroData' = PushSample(recentGyroData, CallData)
      ]_vars

(***************************************************************************)
(* C14.  The buffers are separate: ingesting a rotation sample leaves the   *)
(* acceleration buffer as it is, and so the low-activity mean is taken over *)
(* acceleration samples only; ingesting an acceleration sample leaves the   *)
(* rotation buffer as it is.                                                *)
(***************************************************************************)
C14_BuffersSeparate ==
    /\ [][GyroCall => recentAccelData' = recentAccelData]_vars
    /\ [][AccelCall => recentGyroData' = recentGyroData]_vars
    /\ [](\A i \in DOMAIN recentAccelData :
            \E j \in DOMAIN accelLog : recentAccelData[i] = accelLog[j])

(***************************************************************************)
(* C15.  No state persists across a restart: a startDetection that follows  *)
(* a stopDetection leaves the detector in its initial state, the pattern    *)
(* idle and both buffers empty.                                             *)
(***************************************************************************)
C15_RestartFromInitial ==
    [][(StartDetection /\ ~state.isDetecting)
         => /\ fallPatternRef' = InitialPattern
            /\ recentAccelData' = << >>
            /\ recentGyroData' = << >>
      ]_vars

\* What the code does: startDetection touches neither the pattern nor the buffers.
C15_RestartKeepsDetector ==
    [][StartDetection
         => UNCHANGED <<fallPatternRef, recentAccelData, recentGyroData>>]_vars

(***************************************************************************)
(* C16.  Cancellation: between a stopDetection and the next startDetection  *)
(* (isDetecting is false) no handler is registered and no devicemotion      *)
(* event is ingested, whatever starts and stops came before.                *)
(***************************************************************************)
C16_StoppedIngestsNothing ==
    /\ []((mounted /\ ~state.isDetecting) => listeners = << >>)
    /\ [][IngestCall => state.isDetecting]_vars

(***************************************************************************)
(* C17.  Simple threshold detector.  A step that counts a fall is an        *)
(* accelerometer reading of magnitude above fallThreshold, taken when       *)
(* lastFallTime is null or more than 2000 ms before now; it adds 1 and sets *)
(* lastFallTime to now, so a lastFallTime that replaces an earlier one is   *)
(* more than 2000 ms later.  A reading taken within 2000 ms of lastFallTime *)
(* changes only the sensor-data window.                                     *)
(***************************************************************************)
NewReading == accelLog'[Len(accelLog')]

C18_Arming ==
    [][/\ (AccelCall /\ ~Armed /\ getMagnitude(CallData) > accelerationThreshold)
            => fallPatternRef' =
                  [fallPatternRef EXCEPT !.impactDetected = TRUE,
                                         !.accelerationSpike = TRUE,
                                         !.patternStartTime = Some(CallData.timestamp)]
       /\ (~Armed /\ fallPatternRef'.impactDetected)
            => /\ AccelCall
               /\ getMagnitude(CallData) > accelerationThreshold
      ]_vars

\* A sample at the threshold and a rotation sample were ingested while idle
\* and armed nothing; a later sample above the threshold armed the pattern.
C18_Witness ==
    /\ Armed
    /\ fallLog = << >>
    /\ fallPatternRef.accelerationSpike
    /\ \E i \in DOMAIN accelLog :
          /\ getMagnitude(accelLog[i]) = accelerationThreshold
          /\ accelLog[i].timestamp < Val(fallPatternRef.patternStartTime)
    /\ \E i \in DOMAIN gyroLog :
          gyroLog[i].timestamp < Val(fallPatternRef.patternStartTime)

(***************************************************************************)
(* C19.  Low-activity confirmation: lowActivityAfter goes from false to     *)
(* true only in the ingestion of an acceleration sample, while armed, with  *)
(* 200 < dt < patternDuration (dt = the sample's timestamp minus            *)
(* patternStartTime) and with the mean magnitude of the last 10             *)
(* acceleration samples (all of them if fewer), the new one included,       *)
(* strictly below lowActivityThreshold.  The flag is looked at where the    *)
(* call has set it, before its completion check, and after the call.        *)
(***************************************************************************)
SinceImpact == CallData.timestamp - Val(fallPatternRef.patternStartTime)

LastAccelSamples == LastOf(Append(accelLog, CallData), 10)

C19_LowActivityOnlyInWindow ==
    [][(/\ ~fallPatternRef.lowActivityAfter
        /\ \/ fallPatternRef'.lowActivityAfter
           \/ IngestCall /\ CallStage.lowActivityAfter)
         => /\ AccelCall
            /\ Armed
            /\ SinceImpact > 200
            /\ SinceImpact < patternDuration
            /\ SumMagnitude(LastAccelSamples)
                  < lowActivityThreshold * Len(LastAccelSamples)
      ]_vars

\* A quiet sample exactly 200 ms after the impact set nothing; a later one
\* set the flag.
C19_Witness ==
    /\ Armed
    /\ fallPatternRef.lowActivityAfter
    /\ \E i \in DOMAIN accelLog :
          /\ accelLog[i].timestamp = Val(fallPatternRef.patternStartTime) + 200
          /\ getMagnitude(accelLog[i]) < lowActivityThreshold

(***************************************************************************)
(* C20.  Rotation confirmation: highAngularVelocity goes from false to true *)
(* only in the ingestion of a rotation sample, while armed, with magnitude  *)
(* strictly above angularVelocityThreshold and 0 < dt < 1000; a rotation    *)
(* sample with the impact's own timestamp does not set it.                  *)
(***************************************************************************)
C20_RotationWindow ==
    [][(~fallPatternRef.highAngularVelocity /\ fallPatternRef'.highAngularVelocity)
         => /\ GyroCall
            /\ Armed
            /\ getMagnitude(CallData) > angularVelocityThreshold
            /\ SinceImpact > 0
            /\ SinceImpact < 1000
      ]_vars

\* The same for src/utils/fallDetection.ts, where the call that sets the flag
\* may also complete the pattern: the flag is looked at before the
\* completion check as well.
C20_RotationStage ==
    /\ C20_RotationWindow
    /\ [][(/\ ~fallPatternRef.highAngularVelocity
            /\ IngestCall /\ CallStage.highAngularVelocity)
             => /\ GyroCall
                /\ Armed
                /\ getMagnitude(CallData) > angularVelocityThreshold
                /\ SinceImpact > 0
                /\ SinceImpact < 1000
          ]_vars

(***************************************************************************)
(* C21.  Confirmation guard: an ingest call increments fallCount (and sets  *)
(* lastFallTime to now) only if at its completion check all four flags are  *)
(* true, now - patternStartTime <= patternDuration, and lastFallTime is     *)
(* null or more than 3000 ms before now.                                    *)
(***************************************************************************)
C21_ConfirmationGuard ==
    [][(IngestCall /\ state'.fallCount > state.fallCount)
         => /\ AllFlags(CallStage)
            /\ SinceStart <= patternDuration
            /\ \/ state.lastFallTime = Null
               \/ clock - Val(state.lastFallTime) > 3000
            /\ state'.lastFallTime = Some(clock)
      ]_vars

\* The guard as the code evaluates it: the cooldown is tested on the
\* lastFallTime of the state object passed to the call.
C21_GuardOnCaptured ==
    [][(IngestCall /\ state'.fallCount > state.fallCount)
         => /\ AllFlags(CallStage)
            /\ SinceStart <= patternDuration
            /\ \/ Captured.lastFallTime = Null
               \/ clock - Val(Captured.lastFallTime) > 3000
            /\ state'.lastFallTime = Some(clock)
      ]_vars

(***************************************************************************)
(* C22.  Flags are monotone inside an episode: a step that turns            *)
(* lowActivityAfter or highAngularVelocity from true to false is a reset of *)
(* the whole pattern; no sample clears a flag and leaves the episode armed, *)
(* even one that raises the low-activity mean above the threshold.          *)
(***************************************************************************)
C22_FlagsMonotone ==
    [][/\ (fallPatternRef.lowActivityAfter /\ ~fallPatternRef'.lowActivityAfter)
            => fallPatternRef' = InitialPattern
       /\ (fallPatternRef.highAngularVelocity /\ ~fallPatternRef'.highAngularVelocity)
            => fallPatternRef' = InitialPattern
      ]_vars

\* lowActivityAfter is still set after a sample, inside the low-activity
\* window, that raised the mean of the last samples to the threshold or above.
C22_Witness ==
    /\ pc = "gyro"
    /\ Armed
    /\ fallPatternRef.lowActivityAfter
    /\ timestamp - Val(fallPatternRef.patternStartTime) < patternDuration
    /\ recentAccelData # << >>
    /\ recentAccelData[Len(recentAccelData)].timestamp = timestamp
    /\ ~IsLowActivity(recentAccelData)

(***************************************************************************)
(* C23.  accelerationSpike equals impactDetected in every reachable state.  *)
(***************************************************************************)
C23_SpikeIsImpact ==
    fallPatternRef.accelerationSpike <=> fallPatternRef.impactDetected

\* An episode was armed and has been reset by the timeout: both flags are
\* false again.
C23_Witness ==
    /\ Outcomes("expired") # {}
    /\ ~fallPatternRef.accelerationSpike
    /\ ~fallPatternRef.impactDetected
    /\ pc = "idle"

(***************************************************************************)
(* C25.  highAngularVelocity or lowActivityAfter implies impactDetected: a  *)
(* sample ingested while the detector is idle sets no confirmation flag.    *)
(***************************************************************************)
C25_FlagsImplyImpact ==
    (fallPatternRef.highAngularVelocity \/ fallPatternRef.lowActivityAfter)
        => fallPatternRef.impactDetected

\* A quiet acceleration sample and a rotation sample above the threshold
\* have been ingested by a detector that was never armed.
C25_Witness ==
    /\ Idle
    /\ \A i \in DOMAIN accelLog : getMagnitude(accelLog[i]) <= accelerationThreshold
    /\ \E i \in DOMAIN accelLog : getMagnitude(accelLog[i]) < lowActivityThreshold
    /\ \E i \in DOMAIN gyroLog : getMagnitude(gyroLog[i]) > angularVelocityThreshold

(***************************************************************************)
(* C24.  Pattern reset and counter reset are distinct: an ingest call that  *)
(* does not count a fall leaves the hook's state (fallCount, lastFallTime,  *)
(* fallDetected) as it is, also when it resets the pattern by timeout or    *)
(* consumes a pattern the cooldown suppressed; lastFallTime changes only in *)
(* an ingest call that counts a fall or in resetFallDetection.              *)
(***************************************************************************)
C24_CountersOnlyOnFallOrReset ==
    [][/\ (IngestCall /\ state'.fallCount = state.fallCount) => state' = state
       /\ state'.lastFallTime # state.lastFallTime
            => \/ IngestCall /\ state'.fallCount = state.fallCount + 1
               \/ ResetFallDetection
      ]_vars

\* After a counted fall one episode was discarded by the timeout and another
\* was suppressed by the cooldown; lastFallTime is still the counted fall's.
C24_Witness ==
    /\ Len(fallLog) >= 2
    /\ fallLog[1].outcome = "counted"
    /\ \A i \in 2..Len(fallLog) : fallLog[i].outcome \in {"expired", "suppressed"}
    /\ Idle
    /\ state.fallCount = 1
    /\ state.fallDetected
    /\ state.lastFallTime = Some(fallLog[1].now)

(***************************************************************************)
(* C26.  An acceleration sample above accelerationThreshold that is         *)
(* ingested while the pattern is armed and older than patternDuration ends  *)
(* its call with the pattern idle: the impact stage does not fire on an     *)
(* armed pattern, the completion check resets it by timeout, and the sample *)
(* starts no episode and counts nothing.                                    *)
(***************************************************************************)
C26_SpikeOnExpiredEndsIdle ==
    [][(/\ AccelCall
        /\ Armed
        /\ SinceStart > patternDuration
        /\ getMagnitude(CallData) > accelerationThreshold)
         => /\ fallPatternRef' = InitialPattern
            /\ state' = state
      ]_vars

\* The acceleration sample just ingested is a spike, its call ended an
\* episode by timeout, and the pattern is idle.
C26_Witness ==
    /\ pc = "gyro" /\ event.acc # Null
    /\ getMagnitude(SensorData(event.acc, timestamp)) > accelerationThreshold
    /\ fallLog # << >>
    /\ fallLog[Len(fallLog)].kind = "accel"
    /\ fallLog[Len(fallLog)].outcome = "expired"
    /\ fallLog[Len(fallLog)].now = clock
    /\ Idle

(***************************************************************************)
(* C27.  The low-activity mean at a qualifying acceleration sample (armed,  *)
(* more than 200 ms and less than patternDuration after the impact) is the  *)
(* mean of the last min(10, n) acceleration samples in arrival order, the   *)
(* new one included and samples from before the impact and the impact       *)
(* itself included: the call sets lowActivityAfter exactly when that mean   *)
(* is below lowActivityThreshold (a flag already set stays set).            *)
(***************************************************************************)
C27_MeanOverLastTen ==
    [][(/\ AccelCall
        /\ Armed
        /\ SinceImpact > 200
        /\ SinceImpact < patternDuration)
         => /\ Len(LastAccelSamples) = IF Len(accelLog) + 1 < 10
                                        THEN Len(accelLog) + 1 ELSE 10
            /\ CallStage.lowActivityAfter
                  <=> \/ fallPatternRef.lowActivityAfter
                      \/ SumMagnitude(LastAccelSamples)
                            < lowActivityThreshold * Len(LastAccelSamples)
      ]_vars

\* The first sample after the impact has set lowActivityAfter; the window it
\* averaged holds the impact sample and a non-zero sample from before it.
C27_Witness ==
    /\ pc = "gyro" /\ event.acc # Null
    /\ Armed
    /\ fallPatternRef.lowActivityAfter
    /\ Len(accelLog) >= 3
    /\ accelLog[Len(accelLog)].timestamp = timestamp
    /\ accelLog[Len(accelLog) - 1].timestamp = Val(fallPatternRef.patternStartTime)
    /\ \E i \in DOMAIN LastOf(accelLog, 10) :
          /\ LastOf(accelLog, 10)[i].timestamp < Val(fallPatternRef.patternStartTime)
          /\ getMagnitude(LastOf(accelLog, 10)[i]) > 0

(***************************************************************************)
(* C30.  The low-activity mean is never taken over an empty window: when    *)
(* the low-activity check runs, the buffer it slices already ends with the  *)
(* sample being ingested, and the window has between 1 and 10 samples.      *)
(***************************************************************************)
C30_WindowNeverEmpty ==
    [][(/\ AccelCall
        /\ Armed
        /\ SinceImpact > 200
        /\ SinceImpact < patternDuration)
         => LET recentData == SliceLast(recentAccelData', 10)
            IN /\ Len(recentData) >= 1
               /\ Len(recentData) <= 10
               /\ recentData[Len(recentData)] = CallData
      ]_vars

\* The low-activity check has just run on a buffer of more than ten samples.
C30_Witness ==
    /\ pc = "gyro" /\ event.acc # Null
    /\ Armed
    /\ timestamp - Val(fallPatternRef.patternStartTime) > 200
    /\ timestamp - Val(fallPatternRef.patternStartTime) < patternDuration
    /\ Len(recentAccelData) > 10
    /\ recentAccelData[Len(recentAccelData)].timestamp = timestamp

(***************************************************************************)
(* C28.  Whatever startDetection and stopDetection calls were made (the     *)
(* start on mount included), at most one devicemotion handler of the hook   *)
(* is registered, so the events delivered so far have appended at most one  *)
(* sample each to the acceleration buffer and to the rotation buffer.        *)
(***************************************************************************)
C28_OneHandler ==
    /\ Len(listeners) <= 1
    /\ Len(accelLog) <= events
    /\ Len(gyroLog) <= events

\* What the code keeps: one handler per startDetection call not yet undone,
\* and the mount's handler captured the initial state.
C28_HandlersPerStart ==
    /\ Len(listeners) <= starts
    /\ Len(accelLog) <= events * Cardinality(HandlerIds)
    /\ Len(gyroLog) <= events * Cardinality(HandlerIds)

(***************************************************************************)
(* C29.  Resets leave the rolling buffers alone.  resetFallDetection        *)
(* changes neither buffer, and an ingest call that ends an episode (by      *)
(* completion or by timeout) does to the buffers what any ingest call does: *)
(* it appends its sample to its channel's buffer.  After either step each   *)
(* buffer still holds the last dataWindowSize samples that arrived on its   *)
(* channel, those from before the reset included.                           *)
(***************************************************************************)
C29_ResetsKeepBuffers ==
    [][(\/ ResetFallDetection
        \/ IngestCall /\ Armed /\ ~fallPatternRef'.impactDetected)
         => /\ recentAccelData' = LastOf(accelLog', dataWindowSize)
            /\ recentGyroData' = LastOf(gyroLog', dataWindowSize)
            /\ Len(recentAccelData') >= Len(recentAccelData)
            /\ Len(recentGyroData') >= Len(recentGyroData)
      ]_vars

\* A fall was counted, resetFallDetection cleared the counters, an episode
\* timed out, and the acceleration buffer holds every sample since the mount.
C29_Witness ==
    /\ Outcomes("counted") # {}
    /\ Outcomes("expired") # {}
    /\ state.fallCount = 0
    /\ Idle
    /\ Len(accelLog) >= 3
    /\ recentAccelData = accelLog
    /\ recentAccelData[1].timestamp < fallLog[1].now

=============================================================================
